---- MODULE Spec2Model ----
(***************************************************************************)
(* A model of the mantle-forge command-line client (src/index.js, the      *)
(* complete program text of lines 410-834).  Every invocation of the CLI   *)
(* is a process that runs one command handler; a handler is cut into       *)
(* steps at its suspension points (the awaits on the prompt and on the     *)
(* HTTP requests).  The config file is the only state shared between       *)
(* invocations.                                                            *)
(*                                                                         *)
(* Specifications:                                                         *)
(*   Spec         the commands of one shell session, one after another     *)
(*   OverlapSpec  two invocations of init that overlap in time             *)
(*   PadSpec      calls of padWithAnsi                                     *)
(*   HashSpec     pairs of calls of calculateBranchHash                    *)
(***************************************************************************)
EXTENDS Integers, Sequences, FiniteSets, TLC

VARIABLES
  file,   \* contents of .mantlepush.json: NoFile, or the parsed document
  proc,   \* proc[p]: the state of invocation p (see Fresh)
  writes  \* history: the repo_url of every write of the file, in order

vars == <<file, proc, writes>>

(***************************************************************************)
(* Bounds of the model.                                                    *)
(***************************************************************************)
MaxCount == 1     \* counters of a stats snapshot range over 0..MaxCount
MaxArgLen == 5    \* length of the KEY=VALUE argument of `secrets set`
MaxLogs == 2      \* number of log lines in a short /api/logs response
MaxTextLen == 4   \* length of the text given to padWithAnsi
MaxWidth == 5     \* width given to padWithAnsi

(***************************************************************************)
(* Program constants.                                                      *)
(***************************************************************************)
LogLimit == 50    \* "(Last 50 entries)"
LabelWidth == 19  \* padWithAnsi('Metric', 19)
ValueWidth == 27  \* padWithAnsi(chalk.bold(branch1), 27)

(***************************************************************************)
(* The environment: processes, repository URLs, branch names.              *)
(***************************************************************************)
Procs == {1, 2}
\* The invocations of a shell session: one after another.
Sequential == {1}

Urls == {"r", "r/x"}
BranchNames == {"main", "x/main"}

NoFile == [exists |-> FALSE]
ConfigFile(url) == [exists |-> TRUE, repo_url |-> url]

Commands == {"init", "secrets_set", "secrets_check", "stats", "logs",
             "restart", "compare"}

\* What the user may type at the prompt of `init` (empty: just Enter with no
\* default available).
PromptAnswers == Urls \cup {""}

\* What `git rev-parse --abbrev-ref HEAD` prints, trimmed (empty on failure).
VcsOutputs == BranchNames \cup {""}

\* The <branch1> <branch2> arguments of `compare`.
BranchArgs == BranchNames \cup {""}
\* A branch name of 31 characters.
LongBranch == "feature/momentum-with-stop-loss"

(***************************************************************************)
(* An invocation.                                                          *)
(*   pc      where the handler stands: "idle", "start", an await, "exited" *)
(*   status  "running", "exit0" (returned normally), "exit1"               *)
(*           (process.exit(1)), "uncaught" (an exception left the handler) *)
(*   out     what was printed, in order                                    *)
(*   log     the side effects on the outside world, in order: the config   *)
(*           file read, the VCS query, identities computed, requests sent  *)
(***************************************************************************)
Fresh(cmd, argv) ==
  [pc |-> "start", cmd |-> cmd, argv |-> argv, status |-> "running",
   out |-> <<>>, log |-> <<>>,
   config |-> NoFile, branch_name |-> "",
   key |-> <<>>, value |-> <<>>,
   fetch |-> <<>>]

Idle == [Fresh("none", <<>>) EXCEPT !.pc = "idle"]

Say(r, ev) == [r EXCEPT !.out = Append(@, ev)]
Note(r, ev) == [r EXCEPT !.log = Append(@, ev)]

\* `return` from the handler: the process ends with exit code 0.
Return(r) == [r EXCEPT !.pc = "exited", !.status = "exit0"]
\* process.exit(1)
Exit1(r) == [r EXCEPT !.pc = "exited", !.status = "exit1"]
\* an exception propagates out of the async handler
Throw(r) == [r EXCEPT !.pc = "exited", !.status = "uncaught"]

Ended(r) == r.pc = "exited"

Msg(t) == [t |-> t]
SayAll(r, evs) == [r EXCEPT !.out = @ \o evs]

(***************************************************************************)
(* Helper functions (lines 431-474).                                       *)
(***************************************************************************)
\* getConfig that returns where it should end the process with code 1.
getConfigReturns(r) ==
  LET r1 == Note(r, [e |-> "existsSync", found |-> file.exists])
  IN IF file.exists
     THEN [Note(r1, [e |-> "readFile"]) EXCEPT !.config = file]
     ELSE Return(Say(Say(r1, Msg("not_configured")), Msg("run_init")))

\* getConfig, lines 431-439: the parsed file, or the two messages and
\* process.exit(1).
getConfig(r) ==
  LET r1 == Note(r, [e |-> "existsSync", found |-> file.exists])
  IN IF file.exists
     THEN [Note(r1, [e |-> "readFile"]) EXCEPT !.config = file]
     ELSE Exit1(Say(Say(r1, Msg("not_configured")), Msg("run_init")))

\* getCurrentBranch without the check of lines 444-447.
getCurrentBranchUnchecked(r, vcs) ==
  [Note(r, [e |-> "git_rev_parse", stdout |-> vcs]) EXCEPT !.branch_name = vcs]

\* getCurrentBranch, lines 442-449: `vcs` is the trimmed output of git.
getCurrentBranch(r, vcs) ==
  LET r1 == Note(r, [e |-> "git_rev_parse", stdout |-> vcs])
  IN IF vcs = ""
     THEN Exit1(Say(r1, Msg("could_not_determine_branch")))
     ELSE [r1 EXCEPT !.branch_name = vcs]

\* The two statements in the other order.
loadContextBranchFirst(r, vcs) ==
  LET b == getCurrentBranch(r, vcs)
  IN IF Ended(b) THEN b ELSE getConfig(b)

\* const config = getConfig(); const branch_name = getCurrentBranch();
\* the first two statements of every handler that works on the current
\* branch (lines 577-578, 599-600, 641-642, 690-691, 716-717).
loadContext(r, vcs) ==
  LET c == getConfig(r)
  IN IF Ended(c) THEN c ELSE getCurrentBranch(c, vcs)

\* calculateBranchHash that leaves the branch name out of the hashed text.
calculateBranchHashOfRepo(repo_url, branch_name) ==
  <<"keccak256", repo_url \o "/">>

\* calculateBranchHash, lines 454-456: ethers.id of the concatenation.  The
\* hash is taken as collision-free: the digest is identified with the byte
\* string it was computed from.
calculateBranchHash(repo_url, branch_name) ==
  <<"keccak256", repo_url \o "/" \o branch_name>>

(***************************************************************************)
(* The remote service, seen through axios: a request either resolves with  *)
(* a body `data`, or rejects with an error that carries a response (any    *)
(* non-2xx status) or none (a network error).                              *)
(***************************************************************************)
Resolved(data) == [ok |-> TRUE, data |-> data]
\* `error` is the body's error field, "" when the body has none.
HttpError(status, error) ==
  [ok |-> FALSE, response |-> TRUE, status |-> status, error |-> error,
   message |-> "Request failed with status code"]
NetworkError ==
  [ok |-> FALSE, response |-> FALSE, status |-> 0, error |-> "",
   message |-> "Network Error"]
\* What reading a property of null or calling a missing method throws.
TypeError ==
  [ok |-> FALSE, response |-> FALSE, status |-> 0, error |-> "",
   message |-> "TypeError"]

Rejections ==
  { HttpError(404, "Agent not found"), HttpError(404, ""),
    HttpError(500, "Internal error"), HttpError(500, ""), NetworkError }

\* err.response?.data?.error || err.message
errorMsg(err) == IF err.response /\ err.error # "" THEN err.error ELSE err.message
\* err.response?.status === 404
isNotFound(err) == err.response /\ err.status = 404

Request(method, path, body) ==
  [e |-> "request", method |-> method, path |-> path, body |-> body]
\* The i-th request of the invocation has settled with resp.
Response(i, resp) == [e |-> "response", i |-> i, resp |-> resp]

(***************************************************************************)
(* init                                                                    *)
(***************************************************************************)
\* init without the existence check of lines 485-491.
InitCheckAlwaysPrompts(p) ==
  /\ proc[p].pc = "start"
  /\ proc[p].cmd = "init"
  /\ proc' = [proc EXCEPT ![p] =
       [Note(Note(@, [e |-> "existsSync", found |-> file.exists]), [e |-> "prompt"])
        EXCEPT !.pc = "prompt"]]
  /\ UNCHANGED <<file, writes>>

\* Lines 485-491: the file exists: report and return.  Otherwise await the
\* prompt.
InitCheck(p) ==
  /\ proc[p].pc = "start"
  /\ proc[p].cmd = "init"
  /\ LET r == Note(proc[p], [e |-> "existsSync", found |-> file.exists])
     IN IF file.exists
        THEN proc' = [proc EXCEPT ![p] =
               Return(Say(Say(Say(Note(r, [e |-> "readFile"]),
                 Msg("already_initialized")),
                 [t |-> "current_repository", repo_url |-> file.repo_url]),
                 Msg("delete_to_reinitialize")))]
        ELSE proc' = [proc EXCEPT ![p] =
               [Note(r, [e |-> "prompt"]) EXCEPT !.pc = "prompt"]]
  /\ UNCHANGED <<file, writes>>

\* Lines 493-546: the prompt is answered; an empty answer is refused, any other
\* is written to the file.
InitAnswer(p) ==
  /\ proc[p].pc = "prompt"
  /\ \E answer \in PromptAnswers :
       IF answer = ""
       THEN /\ proc' = [proc EXCEPT ![p] =
                 Return(Say(@, Msg("repository_url_required")))]
            /\ UNCHANGED <<file, writes>>
       ELSE /\ file' = ConfigFile(answer)
            /\ writes' = Append(writes, answer)
            /\ proc' = [proc EXCEPT ![p] =
                 Return(Say(Note(@, [e |-> "writeFile", repo_url |-> answer]),
                            [t |-> "created", repo_url |-> answer]))]

(***************************************************************************)
(* Stats snapshots and getStats (lines 459-474).                           *)
(***************************************************************************)
\* A counter the response leaves out reads as `undefined`.
Missing == -1
CounterVals == {Missing} \cup (0..MaxCount)

\* v || 0
orZero(v) == IF v = Missing \/ v = 0 THEN 0 ELSE v
\* the truthiness of a counter
truthy(v) == v # Missing /\ v # 0

\* The `stats` object of a response.  The fields that are only displayed
\* (buy_count, hold_count, avg_price with min_price and max_price) are all
\* present or all left out.
Snapshot(total, buy, hold, trades, price) ==
  [total_decisions |-> total, buy_count |-> buy, hold_count |-> hold,
   trades_executed |-> trades, avg_price |-> price]
Snapshots ==
  { Snapshot(t, d, d, x, d) : t \in CounterVals, x \in CounterVals,
                              d \in {Missing, MaxCount} }

\* Bodies of GET /api/stats/{hash}: with or without a `stats` object.
StatsBody(hasStats, stats) == [has_stats |-> hasStats, stats |-> stats]
NoStats == StatsBody(FALSE, Snapshot(Missing, Missing, Missing, Missing, Missing))
\* Snapshots with larger counters: 3 trades of 10 decisions, 9 of 20, and 6 of
\* 20 (the rate of the first with the counters of neither).
LargeSnapshots ==
  { Snapshot(10, 4, 6, 3, Missing), Snapshot(20, 8, 12, 9, Missing),
    Snapshot(20, 8, 12, 6, Missing) }

StatsBodies ==
  {NoStats} \cup { StatsBody(TRUE, s) : s \in Snapshots \cup LargeSnapshots }

Null == [isNull |-> TRUE]

\* Lines 461-463: getStats up to its await: the request is on its way, the
\* promise getStats returned is pending.
getStatsCall(r, repo_url, branch_name) ==
  LET branch_hash == calculateBranchHash(repo_url, branch_name)
      r1 == Note(Note(r, [e |-> "calculateBranchHash", hash |-> branch_hash]),
                 Request("GET", <<"/api/stats", branch_hash>>, <<>>))
  IN [r1 EXCEPT !.fetch = Append(@, [state |-> "pending", repo_url |-> repo_url,
                                     branch_name |-> branch_name,
                                     hash |-> branch_hash, result |-> Null])]

\* getStats that prints and rethrows: its promise is rejected on a failure.
getStatsSettleRethrow(r, i, resp) ==
  LET f == r.fetch[i]
  IN IF resp.ok
     THEN [r EXCEPT !.fetch[i].state = "fulfilled",
                    !.fetch[i].result =
                       [isNull |-> FALSE, has_stats |-> resp.data.has_stats,
                        stats |-> resp.data.stats,
                        branch_name |-> f.branch_name, repo_url |-> f.repo_url]]
     ELSE [Say(r, IF isNotFound(resp)
                  THEN [t |-> "agent_not_found", branch |-> f.branch_name]
                  ELSE [t |-> "error_fetching_stats", branch |-> f.branch_name,
                        msg |-> errorMsg(resp)])
           EXCEPT !.fetch[i].state = "rejected"]

\* Lines 464-473: the request of promise i has settled with `resp`: getStats
\* returns the body with branch_name and repo_url added, or prints and
\* returns null.  Either way its promise is fulfilled.
getStatsSettle(r, i, resp) ==
  LET f == r.fetch[i]
  IN IF resp.ok
     THEN [r EXCEPT !.fetch[i].state = "fulfilled",
                    !.fetch[i].result =
                       [isNull |-> FALSE, has_stats |-> resp.data.has_stats,
                        stats |-> resp.data.stats,
                        branch_name |-> f.branch_name, repo_url |-> f.repo_url]]
     ELSE [Say(r, IF isNotFound(resp)
                  THEN [t |-> "agent_not_found", branch |-> f.branch_name]
                  ELSE [t |-> "error_fetching_stats", branch |-> f.branch_name,
                        msg |-> errorMsg(resp)])
           EXCEPT !.fetch[i].state = "fulfilled"]

\* A response arrives for one of the pending requests of getStats.
FetchDone(p) ==
  /\ proc[p].pc \in {"await_stats", "await_all"}
  /\ \E i \in 1..Len(proc[p].fetch) :
       /\ proc[p].fetch[i].state = "pending"
       /\ \E resp \in { Resolved(d) : d \in StatsBodies } \cup Rejections :
            proc' = [proc EXCEPT ![p] =
              getStatsSettle(Note(@, Response(i, resp)), i, resp)]
  /\ UNCHANGED <<file, writes>>

\* Promise.race in the place of Promise.all: settled as soon as one promise is.
promiseRace(promises) ==
  IF \E i \in 1..Len(promises) : promises[i].state = "rejected" THEN "rejected"
  ELSE IF \E i \in 1..Len(promises) : promises[i].state = "fulfilled"
       THEN "fulfilled"
       ELSE "pending"

\* Promise.all: rejected as soon as one promise is, fulfilled when all are.
promiseAll(promises) ==
  IF \E i \in 1..Len(promises) : promises[i].state = "rejected" THEN "rejected"
  ELSE IF \A i \in 1..Len(promises) : promises[i].state = "fulfilled"
       THEN "fulfilled"
       ELSE "pending"

(***************************************************************************)
(* stats (lines 637-681).                                                  *)
(***************************************************************************)
\* Lines 641-645.
StatsStart(p) ==
  /\ proc[p].pc = "start"
  /\ proc[p].cmd = "stats"
  /\ \E vcs \in VcsOutputs :
       LET Get(r) ==
             [getStatsCall(Say(r, [t |-> "fetching_stats", branch |-> r.branch_name]),
                           r.config.repo_url, r.branch_name)
              EXCEPT !.pc = "await_stats"]
       IN proc' = [proc EXCEPT ![p] =
            LET b == loadContext(@, vcs) IN IF Ended(b) THEN b ELSE Get(b)]
  /\ UNCHANGED <<file, writes>>

\* Lines 647-680.
statsReport(r, result) ==
  IF result.isNull
  THEN Return(Say(r, [t |-> "could_not_fetch_stats", branch |-> r.branch_name]))
  ELSE IF ~result.has_stats
  THEN Return(Say(r, Msg("no_performance_metrics")))
  ELSE
    LET s == result.stats
        totalDecisions == orZero(s.total_decisions)
        r1 == SayAll(r, << [t |-> "performance", branch |-> r.branch_name],
                [t |-> "total_decisions", v |-> totalDecisions],
                [t |-> "buy_signals", v |-> orZero(s.buy_count)],
                [t |-> "hold_signals", v |-> orZero(s.hold_count)],
                [t |-> "trades_executed", v |-> orZero(s.trades_executed)] >>)
        r2 == IF truthy(s.avg_price) THEN Say(r1, Msg("price_statistics")) ELSE r1
    IN IF totalDecisions = 0
       THEN Return(Say(r1, Msg("no_decisions_yet")))
       ELSE IF s.trades_executed # Missing /\ s.trades_executed > 0 /\ totalDecisions > 0
            THEN Return(Say(r2, [t |-> "success_rate", trades |-> s.trades_executed,
                                 decisions |-> totalDecisions]))
            ELSE Return(r2)

\* The await of line 645 resumes.
StatsJoin(p) ==
  /\ proc[p].pc = "await_stats"
  /\ proc[p].fetch[1].state # "pending"
  /\ proc' = [proc EXCEPT ![p] =
       IF @.fetch[1].state = "rejected" THEN Throw(@)
       ELSE statsReport(@, @.fetch[1].result)]
  /\ UNCHANGED <<file, writes>>

(***************************************************************************)
(* compare <branch1> <branch2> (lines 745-831).                            *)
(***************************************************************************)
\* Lines 749-756: both getStats calls are made, then the handler awaits
\* Promise.all of the two promises.
CompareStart(p) ==
  /\ proc[p].pc = "start"
  /\ proc[p].cmd = "compare"
  /\ LET branch1 == proc[p].argv[1]
         branch2 == proc[p].argv[2]
         Fetch(r) ==
           [getStatsCall(
              getStatsCall(Say(r, [t |-> "comparing", branch1 |-> branch1,
                                   branch2 |-> branch2]),
                           r.config.repo_url, branch1),
              r.config.repo_url, branch2)
            EXCEPT !.pc = "await_all"]
     IN proc' = [proc EXCEPT ![p] =
          LET c == getConfig(@) IN IF Ended(c) THEN c ELSE Fetch(c)]
  /\ UNCHANGED <<file, writes>>

\* The comparisons of lines 814 and 816 with >= for >.
tradeLeaderOnTies(s1, s2, branch1, branch2) ==
  IF orZero(s1.trades_executed) >= orZero(s2.trades_executed)
  THEN [t |-> "more_trades", branch |-> branch1]
  ELSE IF orZero(s2.trades_executed) >= orZero(s1.trades_executed)
       THEN [t |-> "more_trades", branch |-> branch2]
       ELSE Msg("similar_trades")

\* Lines 813-820: the leader on trade volume.
tradeLeader(s1, s2, branch1, branch2) ==
  IF orZero(s1.trades_executed) > orZero(s2.trades_executed)
  THEN [t |-> "more_trades", branch |-> branch1]
  ELSE IF orZero(s2.trades_executed) > orZero(s1.trades_executed)
       THEN [t |-> "more_trades", branch |-> branch2]
       ELSE Msg("similar_trades")

\* Lines 825 and 827 with >= for >.
rateLeaderOnTies(s1, s2, branch1, branch2) ==
  IF truthy(s1.total_decisions) /\ truthy(s2.total_decisions)
  THEN IF s1.trades_executed = Missing \/ s2.trades_executed = Missing THEN <<>>
       ELSE IF s1.trades_executed * s2.total_decisions
                 >= s2.trades_executed * s1.total_decisions
            THEN << [t |-> "better_rate", branch |-> branch1] >>
       ELSE IF s2.trades_executed * s1.total_decisions
                 >= s1.trades_executed * s2.total_decisions
            THEN << [t |-> "better_rate", branch |-> branch2] >>
       ELSE <<>>
  ELSE <<>>

\* Lines 822-830: the leader on success rate, << >> when no line is printed.
\* rate = trades_executed / total_decisions * 100 is compared by cross
\* multiplication; with trades_executed missing the rate is NaN and every
\* comparison is false.
rateLeader(s1, s2, branch1, branch2) ==
  IF truthy(s1.total_decisions) /\ truthy(s2.total_decisions)
  THEN IF s1.trades_executed = Missing \/ s2.trades_executed = Missing THEN <<>>
       ELSE IF s1.trades_executed * s2.total_decisions
                 > s2.trades_executed * s1.total_decisions
            THEN << [t |-> "better_rate", branch |-> branch1] >>
       ELSE IF s2.trades_executed * s1.total_decisions
                 > s1.trades_executed * s2.total_decisions
            THEN << [t |-> "better_rate", branch |-> branch2] >>
       ELSE <<>>
  ELSE <<>>

(***************************************************************************)
(* Cells of the table (lines 771-779).  A text is a sequence of            *)
(* characters; "ESC" stands for U+001B.                                    *)
(***************************************************************************)
\* The class [0-9;] of the pattern.
SgrParam(c) == c \in {"0", "1", "2", "3", "4", "5", "6", "7", "8", "9", ";"}

\* /\u001b\[[0-9;]*m/ tried at the head of str: the length of the match, 0
\* when there is none.  The class and `m` are disjoint, so the greedy run of
\* the class is the only candidate.
matchAnsi(str) ==
  IF Len(str) >= 3 /\ str[1] = "ESC" /\ str[2] = "["
  THEN LET stop == CHOOSE e \in 3..(Len(str) + 1) :
                     /\ \A k \in 3..(e - 1) : SgrParam(str[k])
                     /\ (e = Len(str) + 1 \/ ~SgrParam(str[e]))
       IN IF stop <= Len(str) /\ str[stop] = "m" THEN stop ELSE 0
  ELSE 0

\* Line 772: str.replace(/\u001b\[[0-9;]*m/g, ''): every match, scanning from
\* the left and resuming after each match, is removed.
RECURSIVE stripAnsi(_)
stripAnsi(str) ==
  IF str = <<>> THEN <<>>
  ELSE LET n == matchAnsi(str)
       IN IF n > 0 THEN stripAnsi(SubSeq(str, n + 1, Len(str)))
          ELSE << Head(str) >> \o stripAnsi(Tail(str))

\* ' '.repeat(n)
repeatSpace(n) == [i \in 1..n |-> " "]

\* padWithAnsi that measures the text with its styling sequences.
padWithAnsiRawLength(str, width) ==
  LET padding == IF width - Len(str) > 0 THEN width - Len(str) ELSE 0
  IN str \o repeatSpace(padding)

\* Lines 775-779.
padWithAnsi(str, width) ==
  LET visibleLength == Len(stripAnsi(str))
      padding == IF width - visibleLength > 0 THEN width - visibleLength ELSE 0
  IN str \o repeatSpace(padding)

\* The characters of a string of the program text or of the command line.
characters(s) ==
  CASE s = "main" ->
         << "m", "a", "i", "n" >>
    [] s = "x/main" ->
         << "x", "/", "m", "a", "i", "n" >>
    [] s = "feature/momentum-with-stop-loss" ->
         << "f", "e", "a", "t", "u", "r", "e", "/", "m", "o", "m", "e", "n", "t", "u" >>
         \o << "m", "-", "w", "i", "t", "h", "-", "s", "t", "o", "p", "-", "l", "o", "s", "s" >>
    [] s = "Metric" ->
         << "M", "e", "t", "r", "i", "c" >>
    [] s = "Total Decisions" ->
         << "T", "o", "t", "a", "l", " ", "D" >>
         \o << "e", "c", "i", "s", "i", "o", "n", "s" >>
    [] s = "BUY Signals" ->
         << "B", "U", "Y", " ", "S", "i", "g", "n", "a", "l", "s" >>
    [] s = "HOLD Signals" ->
         << "H", "O", "L", "D", " ", "S" >>
         \o << "i", "g", "n", "a", "l", "s" >>
    [] s = "Trades Executed" ->
         << "T", "r", "a", "d", "e", "s", " " >>
         \o << "E", "x", "e", "c", "u", "t", "e", "d" >>
    [] OTHER -> << >>

\* Number.prototype.toString of a count.
RECURSIVE toString(_)
toString(n) ==
  LET digit == << "0", "1", "2", "3", "4", "5", "6", "7", "8", "9" >>[(n % 10) + 1]
  IN IF n < 10 THEN << digit >> ELSE Append(toString(n \div 10), digit)

\* chalk.bold on a terminal: the text between the sequences that switch bold
\* on and off; an empty text is returned as it is.
bold(str) ==
  IF str = << >> THEN << >>
  ELSE << "ESC", "[", "1", "m" >> \o str \o << "ESC", "[", "2", "2", "m" >>

\* Lines 803-808: one row of the metrics array.
dataRow(label, v1, v2) ==
  [t |-> "row", label |-> label, v1 |-> v1, v2 |-> v2,
   cells |-> << padWithAnsi(characters(label), LabelWidth),
                padWithAnsi(toString(v1), ValueWidth),
                padWithAnsi(toString(v2), ValueWidth) >>]

\* Line 790 with s1 where it reads s2.
tableRowsSameSide(s1, s2, branch1, branch2) ==
  << [t |-> "header", c1 |-> branch1, c2 |-> branch2,
      cells |-> << padWithAnsi(characters("Metric"), LabelWidth),
                   padWithAnsi(bold(characters(branch1)), ValueWidth),
                   padWithAnsi(bold(characters(branch2)), ValueWidth) >>],
     dataRow("Total Decisions",
             orZero(s1.total_decisions), orZero(s2.total_decisions)),
     dataRow("BUY Signals", orZero(s1.buy_count), orZero(s1.buy_count)),
     dataRow("HOLD Signals", orZero(s1.hold_count), orZero(s2.hold_count)),
     dataRow("Trades Executed",
             orZero(s1.trades_executed), orZero(s2.trades_executed)) >>

\* Lines 788-808: the header row and the four metric rows.
tableRows(s1, s2, branch1, branch2) ==
  << [t |-> "header", c1 |-> branch1, c2 |-> branch2,
      cells |-> << padWithAnsi(characters("Metric"), LabelWidth),
                   padWithAnsi(bold(characters(branch1)), ValueWidth),
                   padWithAnsi(bold(characters(branch2)), ValueWidth) >>],
     dataRow("Total Decisions",
             orZero(s1.total_decisions), orZero(s2.total_decisions)),
     dataRow("BUY Signals", orZero(s1.buy_count), orZero(s2.buy_count)),
     dataRow("HOLD Signals", orZero(s1.hold_count), orZero(s2.hold_count)),
     dataRow("Trades Executed",
             orZero(s1.trades_executed), orZero(s2.trades_executed)) >>

\* Lines 768-830: the table and the analysis of two snapshots.
renderComparison(r, s1, s2) ==
  LET branch1 == r.argv[1]
      branch2 == r.argv[2]
  IN Return(SayAll(r,
       << Msg("table_title") >>
       \o tableRows(s1, s2, branch1, branch2)
       \o << Msg("performance_analysis"),
             tradeLeader(s1, s2, branch1, branch2) >>
       \o rateLeader(s1, s2, branch1, branch2)))

\* A slip in line 763: && for ||.
compareReportEitherStats(r, result1, result2) ==
  IF result1.isNull \/ result2.isNull
  THEN Return(Say(r, Msg("could_not_fetch_for_comparison")))
  ELSE IF ~result1.has_stats /\ ~result2.has_stats
       THEN Return(Say(r, Msg("no_metrics_yet")))
       ELSE renderComparison(r, result1.stats, result2.stats)

\* Lines 758-830: what follows the await of Promise.all.
compareReport(r, result1, result2) ==
  IF result1.isNull \/ result2.isNull
  THEN Return(Say(r, Msg("could_not_fetch_for_comparison")))
  ELSE IF ~result1.has_stats \/ ~result2.has_stats
       THEN Return(Say(r, Msg("no_metrics_yet")))
       ELSE renderComparison(r, result1.stats, result2.stats)

\* The join taking the results in the order in which the fetches completed.
CompareJoinByArrival(p) ==
  /\ proc[p].pc = "await_all"
  /\ promiseAll(proc[p].fetch) # "pending"
  /\ LET r == proc[p]
         arrival(i) == CHOOSE k \in 1..Len(r.log) :
                         r.log[k].e = "response" /\ r.log[k].i = i
         first == IF arrival(1) < arrival(2) THEN 1 ELSE 2
     IN proc' = [proc EXCEPT ![p] =
          IF promiseAll(r.fetch) = "rejected" THEN Throw(r)
          ELSE compareReport(r, r.fetch[first].result, r.fetch[3 - first].result)]
  /\ UNCHANGED <<file, writes>>

\* The await of line 753 resumes: with the two results when Promise.all is
\* fulfilled, with an exception (nothing catches it) when it is rejected.
CompareJoin(p) ==
  /\ proc[p].pc = "await_all"
  /\ promiseAll(proc[p].fetch) # "pending"
  /\ proc' = [proc EXCEPT ![p] =
       IF promiseAll(@.fetch) = "rejected" THEN Throw(@)
       ELSE compareReport(@, @.fetch[1].result, @.fetch[2].result)]
  /\ UNCHANGED <<file, writes>>

(***************************************************************************)
(* secrets set <KEY_VALUE> (lines 556-592).  Texts that are parsed are     *)
(* sequences of characters; "LF" stands for a line feed.                   *)
(***************************************************************************)
ArgAlphabet == {"a", "=", "LF"}

RECURSIVE TextsUpTo(_)
TextsUpTo(n) ==
  IF n = 0 THEN { <<>> }
  ELSE LET shorter == TextsUpTo(n - 1)
       IN shorter \cup { Append(t, c) : t \in { u \in shorter : Len(u) = n - 1 },
                                        c \in ArgAlphabet }

\* The texts the user may give as the one argument of `secrets set`.
ArgTexts == TextsUpTo(MaxArgLen)

\* process.argv.slice(2) of `mantle-forge secrets set <arg>`
argvSlice2(arg) == << <<"s","e","c","r","e","t","s">>, <<"s","e","t">>, arg >>

\* Array.prototype.join
RECURSIVE join(_, _)
join(parts, sep) ==
  IF parts = <<>> THEN <<>>
  ELSE IF Len(parts) = 1 THEN parts[1]
  ELSE parts[1] \o sep \o join(Tail(parts), sep)

\* String.prototype.split with a one-character separator: always at least
\* one part.
RECURSIVE split(_, _)
split(text, sep) ==
  IF \A i \in 1..Len(text) : text[i] # sep THEN << text >>
  ELSE LET i == CHOOSE j \in 1..Len(text) :
                  text[j] = sep /\ \A k \in 1..(j - 1) : text[k] # sep
       IN << SubSeq(text, 1, i - 1) >> \o split(SubSeq(text, i + 1, Len(text)), sep)

\* The literal head of the pattern /secrets set (.+)/
PatternHead == <<"s","e","c","r","e","t","s"," ","s","e","t"," ">>

\* `.` matches every character but a line terminator.
Dot(c) == c # "LF"

\* text.match(/secrets set (.+)/): the leftmost place where the literal head
\* is followed by at least one `.` character; the group is the longest run of
\* `.` characters from there.  [found |-> FALSE] is the null result.
matchSecretsSet(text) ==
  LET n == Len(PatternHead)
      At(i) == /\ i + n <= Len(text)
               /\ SubSeq(text, i, i + n - 1) = PatternHead
               /\ Dot(text[i + n])
      starts == { i \in 1..Len(text) : At(i) }
  IN IF starts = {} THEN [found |-> FALSE, group |-> <<>>]
     ELSE LET i == CHOOSE j \in starts : \A k \in starts : j <= k
              from == i + n
              last == CHOOSE e \in from..Len(text) :
                        /\ \A k \in from..e : Dot(text[k])
                        /\ (e = Len(text) \/ ~Dot(text[e + 1]))
          IN [found |-> TRUE, group |-> SubSeq(text, from, last)]

\* const [key, value] = keyValueStr.split('='): the value stops at the
\* second `=`.
parseKeyValueTwoParts(keyValueStr) ==
  LET parts == split(keyValueStr, "=")
  IN [key |-> Head(parts),
      value |-> IF Len(parts) > 1 THEN parts[2] ELSE <<>>]

\* Lines 569-570: const [key, ...valueParts] = keyValueStr.split('=');
\* const value = valueParts.join('=')
parseKeyValue(keyValueStr) ==
  LET parts == split(keyValueStr, "=")
  IN [key |-> Head(parts), value |-> join(Tail(parts), <<"=">>)]

\* Line 572 with the test of the value left out.
invalidKeyOnly(key, value) == key = <<>>

\* Line 572: !key || !value
invalidKeyValue(key, value) == key = <<>> \/ value = <<>>

InvalidFormat == Msg("invalid_format")

\* Lines 560-587, to the await on axios.post.
SecretsSetStart(p) ==
  /\ proc[p].pc = "start"
  /\ proc[p].cmd = "secrets_set"
  /\ \E vcs \in VcsOutputs :
       LET r0 == proc[p]
           fullCommand == join(argvSlice2(r0.argv[1]), <<" ">>)
           match == matchSecretsSet(fullCommand)
           kv == parseKeyValue(match.group)
           Post(r) ==
             [Note(Say(r, [t |-> "setting_secret", key |-> r.key,
                           branch |-> r.branch_name]),
                   Request("POST", "/api/secrets",
                           [repo_url |-> r.config.repo_url,
                            branch_name |-> r.branch_name,
                            key |-> r.key, value |-> r.value]))
              EXCEPT !.pc = "await_post"]
       IN proc' = [proc EXCEPT ![p] =
            IF ~match.found THEN Return(Say(r0, InvalidFormat))
            ELSE IF invalidKeyValue(kv.key, kv.value)
                 THEN Return(Say(r0, InvalidFormat))
            ELSE LET b == loadContext([r0 EXCEPT !.key = kv.key,
                                                  !.value = kv.value], vcs)
                 IN IF Ended(b) THEN b ELSE Post(b)]
  /\ UNCHANGED <<file, writes>>

\* Lines 588-591: the POST resolves or rejects.
SecretsSetDone(p) ==
  /\ proc[p].pc = "await_post"
  /\ \E resp \in { Resolved("ack") } \cup Rejections :
       proc' = [proc EXCEPT ![p] =
         LET r == Note(@, Response(1, resp))
         IN IF resp.ok
            THEN Return(Say(r, [t |-> "secret_set", key |-> r.key]))
            ELSE Return(Say(r, [t |-> "error_setting_secret",
                                msg |-> errorMsg(resp)]))]
  /\ UNCHANGED <<file, writes>>

(***************************************************************************)
(* secrets check (lines 595-632).                                          *)
(***************************************************************************)
\* Bodies of GET /api/secrets/check/{hash}: the documented shape, and the
\* shapes that make the handler's property reads throw.
Secret(key, set) == [key |-> key, set |-> set]
CheckBody(isNull, hasSecrets, required, allSet, hasMissing, missing) ==
  [isNull |-> isNull, has_secrets |-> hasSecrets, required |-> required,
   all_required_set |-> allSet, has_missing |-> hasMissing, missing |-> missing]
CheckBodies ==
  { CheckBody(FALSE, TRUE, << Secret("GROQ_API_KEY", TRUE) >>, TRUE, TRUE, <<>>),
    CheckBody(FALSE, TRUE, << Secret("GROQ_API_KEY", TRUE),
                              Secret("AGENT_PRIVATE_KEY", FALSE) >>,
              FALSE, TRUE, << "AGENT_PRIVATE_KEY" >>),
    CheckBody(TRUE, FALSE, <<>>, FALSE, FALSE, <<>>),
    CheckBody(FALSE, FALSE, <<>>, FALSE, FALSE, <<>>),
    CheckBody(FALSE, TRUE, << Secret("GROQ_API_KEY", FALSE) >>, FALSE, FALSE, <<>>) }

\* Lines 599-605, to the await on axios.get.
SecretsCheckStart(p) ==
  /\ proc[p].pc = "start"
  /\ proc[p].cmd = "secrets_check"
  /\ \E vcs \in VcsOutputs :
       LET Get(r) ==
             LET branch_hash == calculateBranchHash(r.config.repo_url, r.branch_name)
             IN [Note(Note(Say(r, [t |-> "checking_secrets", branch |-> r.branch_name]),
                           [e |-> "calculateBranchHash", hash |-> branch_hash]),
                      Request("GET", <<"/api/secrets/check", branch_hash>>, <<>>))
                 EXCEPT !.pc = "await_check"]
       IN proc' = [proc EXCEPT ![p] =
            LET b == loadContext(@, vcs) IN IF Ended(b) THEN b ELSE Get(b)]
  /\ UNCHANGED <<file, writes>>

\* Lines 624-631: the catch clause.
secretsCheckCatch(r, err) ==
  IF isNotFound(err)
  THEN Return(SayAll(r, << [t |-> "agent_not_found", branch |-> r.branch_name],
                           Msg("push_this_branch") >>))
  ELSE Return(Say(r, [t |-> "error_checking_secrets", msg |-> errorMsg(err)]))

\* Lines 607-622: the body of the try after the await.
secretsCheckReport(r, data) ==
  LET r1 == Say(r, [t |-> "secrets_status", branch |-> r.branch_name])
      r2 == Say(r1, Msg("required_secrets"))
  IN IF data.isNull \/ ~data.has_secrets
     THEN secretsCheckCatch(r2, TypeError)
     ELSE LET r3 == SayAll(r2, [i \in 1..Len(data.required) |->
                      [t |-> "secret", key |-> data.required[i].key,
                       set |-> data.required[i].set]])
              r4 == Say(r3, Msg("status"))
          IN IF data.all_required_set
             THEN Return(Say(r4, Msg("all_required_set")))
             ELSE IF ~data.has_missing
                  THEN secretsCheckCatch(r4, TypeError)
                  ELSE Return(Say(r4, [t |-> "missing_required",
                                       missing |-> data.missing]))

SecretsCheckDone(p) ==
  /\ proc[p].pc = "await_check"
  /\ \E resp \in { Resolved(d) : d \in CheckBodies } \cup Rejections :
       proc' = [proc EXCEPT ![p] =
         LET r == Note(@, Response(1, resp))
         IN IF resp.ok THEN secretsCheckReport(r, resp.data)
            ELSE secretsCheckCatch(r, resp)]
  /\ UNCHANGED <<file, writes>>

(***************************************************************************)
(* logs (lines 686-707).                                                   *)
(***************************************************************************)
\* encodeURIComponent is injective; the encoded text is kept with its tag.
encodeURIComponent(text) == <<"uri", text>>

LogLines(n) == [i \in 1..n |-> i]
\* Bodies of GET /api/logs/..: null, no `logs`, an array of lines, a text.
LogsBody(isNull, hasLogs, isArray, logs) ==
  [isNull |-> isNull, has_logs |-> hasLogs, is_array |-> isArray, logs |-> logs]
LogsBodies ==
  { LogsBody(FALSE, TRUE, TRUE, LogLines(n)) : n \in (0..MaxLogs) \cup {LogLimit + 1} }
  \cup { LogsBody(TRUE, FALSE, FALSE, <<>>), LogsBody(FALSE, FALSE, FALSE, <<>>),
         LogsBody(FALSE, TRUE, FALSE, <<0>>) }

\* Lines 690-696.
LogsStart(p) ==
  /\ proc[p].pc = "start"
  /\ proc[p].cmd = "logs"
  /\ \E vcs \in VcsOutputs :
       LET Get(r) ==
             [Note(Say(r, [t |-> "fetching_logs", branch |-> r.branch_name]),
                   Request("GET", <<"/api/logs", encodeURIComponent(r.config.repo_url),
                                    encodeURIComponent(r.branch_name)>>, <<>>))
              EXCEPT !.pc = "await_logs"]
       IN proc' = [proc EXCEPT ![p] =
            LET b == loadContext(@, vcs) IN IF Ended(b) THEN b ELSE Get(b)]
  /\ UNCHANGED <<file, writes>>

\* Lines 704-706.
logsCatch(r, err) ==
  Return(Say(r, [t |-> "error_fetching_logs", msg |-> errorMsg(err)]))

\* Lines 698-703.
logsReport(r, data) ==
  IF data.isNull THEN logsCatch(r, TypeError)
  ELSE LET r1 == Say(r, [t |-> "recent_logs", branch |-> r.branch_name])
       IN IF data.has_logs /\ Len(data.logs) > 0
          THEN IF data.is_array
               THEN Return(SayAll(r1, [i \in 1..Len(data.logs) |->
                                        [t |-> "log_line", line |-> data.logs[i]]]))
               ELSE logsCatch(r1, TypeError)
          ELSE Return(Say(r1, Msg("no_logs_found")))

LogsDone(p) ==
  /\ proc[p].pc = "await_logs"
  /\ \E resp \in { Resolved(d) : d \in LogsBodies } \cup Rejections :
       proc' = [proc EXCEPT ![p] =
         LET r == Note(@, Response(1, resp))
         IN IF resp.ok THEN logsReport(r, resp.data) ELSE logsCatch(r, resp)]
  /\ UNCHANGED <<file, writes>>

(***************************************************************************)
(* restart (lines 712-740).                                                *)
(***************************************************************************)
\* Bodies of POST /api/agents/branch/{hash}/restart. agent_branch is
\* data.agent?.branch_name, "" when absent.
RestartBody(isNull, success, agentBranch) ==
  [isNull |-> isNull, success |-> success, agent_branch |-> agentBranch]
RestartBodies ==
  { RestartBody(FALSE, TRUE, ""), RestartBody(FALSE, TRUE, "main"),
    RestartBody(FALSE, FALSE, ""), RestartBody(TRUE, FALSE, "") }

\* Lines 716-723.
RestartStart(p) ==
  /\ proc[p].pc = "start"
  /\ proc[p].cmd = "restart"
  /\ \E vcs \in VcsOutputs :
       LET Post(r) ==
             LET branch_hash == calculateBranchHash(r.config.repo_url, r.branch_name)
             IN [Note(Note(Say(r, [t |-> "restarting", branch |-> r.branch_name]),
                           [e |-> "calculateBranchHash", hash |-> branch_hash]),
                      Request("POST", <<"/api/agents/branch", branch_hash, "restart">>,
                              <<>>))
                 EXCEPT !.pc = "await_restart"]
       IN proc' = [proc EXCEPT ![p] =
            LET b == loadContext(@, vcs) IN IF Ended(b) THEN b ELSE Post(b)]
  /\ UNCHANGED <<file, writes>>

\* Lines 732-739.
restartCatch(r, err) ==
  IF isNotFound(err)
  THEN Return(Say(r, [t |-> "agent_not_found", branch |-> r.branch_name]))
  ELSE Return(Say(r, [t |-> "error_restarting", msg |-> errorMsg(err)]))

\* Lines 725-731.
restartReport(r, data) ==
  IF data.isNull THEN restartCatch(r, TypeError)
  ELSE IF data.success
       THEN Return(SayAll(r, << Msg("restarted"),
              [t |-> "restarted_branch",
               branch |-> IF data.agent_branch # "" THEN data.agent_branch
                          ELSE r.branch_name],
              Msg("will_reload") >>))
       ELSE Return(Say(r, [t |-> "restart_response", data |-> data]))

RestartDone(p) ==
  /\ proc[p].pc = "await_restart"
  /\ \E resp \in { Resolved(d) : d \in RestartBodies } \cup Rejections :
       proc' = [proc EXCEPT ![p] =
         LET r == Note(@, Response(1, resp))
         IN IF resp.ok THEN restartReport(r, resp.data) ELSE restartCatch(r, resp)]
  /\ UNCHANGED <<file, writes>>

(***************************************************************************)
(* Invocation of a command.                                                *)
(***************************************************************************)
ArgvOf(cmd) ==
  CASE cmd = "compare" ->
         { <<b1, b2>> : b1 \in BranchArgs, b2 \in BranchArgs }
         \cup { << LongBranch, "main" >>, << "main", LongBranch >> }
    [] cmd = "secrets_set" -> { <<a>> : a \in ArgTexts }
    [] OTHER -> { <<>> }

Invoke(p) ==
  /\ proc[p].pc = "idle"
  /\ \E cmd \in Commands : \E argv \in ArgvOf(cmd) :
       proc' = [proc EXCEPT ![p] = Fresh(cmd, argv)]
  /\ UNCHANGED <<file, writes>>

\* The process of an ended invocation is gone.
Reap(p) ==
  /\ proc[p].pc = "exited"
  /\ proc' = [proc EXCEPT ![p] = Idle]
  /\ UNCHANGED <<file, writes>>

Init ==
  /\ file = NoFile
  /\ writes = <<>>
  /\ proc = [p \in Procs |-> Idle]

Step(p) ==
  \/ Invoke(p)
  \/ InitCheck(p)
  \/ InitAnswer(p)
  \/ SecretsSetStart(p)
  \/ SecretsSetDone(p)
  \/ SecretsCheckStart(p)
  \/ SecretsCheckDone(p)
  \/ LogsStart(p)
  \/ LogsDone(p)
  \/ RestartStart(p)
  \/ RestartDone(p)
  \/ StatsStart(p)
  \/ FetchDone(p)
  \/ StatsJoin(p)
  \/ CompareStart(p)
  \/ CompareJoin(p)
  \/ Reap(p)

\* One invocation at a time.
Next == \E p \in Sequential : Step(p)

Spec == Init /\ [][Next]_vars

(***************************************************************************)
(* Two terminals in one working tree, both running `init`: the invocations *)
(* overlap, each suspended at its prompt for as long as its user takes.    *)
(***************************************************************************)
InvokeInit(p) ==
  /\ proc[p].pc = "idle"
  /\ proc' = [proc EXCEPT ![p] = Fresh("init", <<>>)]
  /\ UNCHANGED <<file, writes>>

OverlapNext ==
  \E p \in Procs : InvokeInit(p) \/ InitCheck(p) \/ InitAnswer(p) \/ Reap(p)

OverlapSpec == Init /\ [][OverlapNext]_vars

(***************************************************************************)
(* padWithAnsi on its own: a call of the function with a text and a width, *)
(* kept as an invocation whose argv holds the arguments and whose out      *)
(* holds the result.                                                       *)
(***************************************************************************)
StyledAlphabet == {"ESC", "[", "1", ";", "m", "a"}

RECURSIVE StyledTextsUpTo(_)
StyledTextsUpTo(n) ==
  IF n = 0 THEN { <<>> }
  ELSE LET shorter == StyledTextsUpTo(n - 1)
       IN shorter \cup { Append(t, c) : t \in { u \in shorter : Len(u) = n - 1 },
                                        c \in StyledAlphabet }

PadCalls ==
  { Fresh("padWithAnsi", << str, width >>) :
      str \in StyledTextsUpTo(MaxTextLen), width \in 0..MaxWidth }

PadInit ==
  /\ file = NoFile
  /\ writes = <<>>
  /\ proc \in { [p \in Procs |-> IF p \in Sequential THEN c ELSE Idle] : c \in PadCalls }

PadCall(p) ==
  /\ proc[p].pc = "start"
  /\ proc[p].cmd = "padWithAnsi"
  /\ proc' = [proc EXCEPT ![p] =
       Return(Say(@, [t |-> "padded",
                      text |-> padWithAnsi(@.argv[1], @.argv[2])]))]
  /\ UNCHANGED <<file, writes>>

PadNext == \E p \in Sequential : PadCall(p)

PadSpec == PadInit /\ [][PadNext]_vars

(***************************************************************************)
(* calculateBranchHash on its own: two calls of the function, each kept as *)
(* an invocation whose argv holds repo_url and branch_name and whose out   *)
(* holds the identity.                                                     *)
(***************************************************************************)
HashCalls ==
  { Fresh("calculateBranchHash", << repo_url, branch_name >>) :
      repo_url \in Urls \cup {""}, branch_name \in BranchNames \cup {""} }

HashInit ==
  /\ file = NoFile
  /\ writes = <<>>
  /\ proc \in [Procs -> HashCalls]

HashCall(p) ==
  /\ proc[p].pc = "start"
  /\ proc[p].cmd = "calculateBranchHash"
  /\ proc' = [proc EXCEPT ![p] =
       Return(Say(@, [t |-> "identity",
                      hash |-> calculateBranchHash(@.argv[1], @.argv[2])]))]
  /\ UNCHANGED <<file, writes>>

HashNext == \E p \in Procs : HashCall(p)

HashSpec == HashInit /\ [][HashNext]_vars

(***************************************************************************)
(* Vocabulary of the properties.                                           *)
(***************************************************************************)
Said(r, tag) == \E k \in 1..Len(r.out) : r.out[k].t = tag
CountSaid(r, tag) == Cardinality({ k \in 1..Len(r.out) : r.out[k].t = tag })
RequestsOf(r) == { k \in 1..Len(r.log) : r.log[k].e = "request" }
ResponsesOf(r) == { k \in 1..Len(r.log) : r.log[k].e = "response" }
\* The place in the log of the response to request i, 0 while there is none.
ResponseAt(r, i) ==
  IF \E k \in ResponsesOf(r) : r.log[k].i = i
  THEN CHOOSE k \in ResponsesOf(r) : r.log[k].i = i
  ELSE 0
Answered(r, i) == ResponseAt(r, i) # 0
AnswerTo(r, i) == r.log[ResponseAt(r, i)].resp
\* Request i was answered with a body that holds a `stats` object.
GotStats(r, i) ==
  Answered(r, i) /\ AnswerTo(r, i).ok /\ AnswerTo(r, i).data.has_stats
\* The config file was found and read.
ConfigLoaded(r) == \E k \in 1..Len(r.log) : r.log[k].e = "readFile"

\* What `compare` prints from the table on.
TableTags == {"table_title", "header", "row", "performance_analysis",
              "more_trades", "similar_trades", "better_rate"}
\* What `compare` prints before the join.
PreJoinTags == {"comparing", "agent_not_found", "error_fetching_stats"}

(***************************************************************************)
(* C1: compare renders the table and the leader lines only when both       *)
(* fetches were answered with a body that holds `stats`; in every other    *)
(* case it prints the could-not-fetch or the no-metrics message and no     *)
(* part of the table or analysis, whatever the other fetch returned.       *)
(***************************************************************************)
C1_TableOnlyWithBothStats ==
  \A p \in Procs :
    LET r == proc[p]
    IN (r.cmd = "compare" /\ r.pc = "exited" /\ ConfigLoaded(r)) =>
         IF GotStats(r, 1) /\ GotStats(r, 2)
         THEN /\ CountSaid(r, "header") = 1
              /\ CountSaid(r, "row") = 4
              /\ Said(r, "more_trades") \/ Said(r, "similar_trades")
         ELSE /\ Said(r, "could_not_fetch_for_comparison") \/ Said(r, "no_metrics_yet")
              /\ \A k \in 1..Len(r.out) : r.out[k].t \notin TableTags

\* branch2's fetch succeeded with stats, branch1's was answered 404: no table.
C1_Witness ==
  \E p \in Procs :
    LET r == proc[p]
    IN /\ r.cmd = "compare" /\ r.pc = "exited"
       /\ GotStats(r, 2)
       /\ Answered(r, 1) /\ ~AnswerTo(r, 1).ok /\ AnswerTo(r, 1).status = 404
       /\ Said(r, "could_not_fetch_for_comparison")
       /\ ~Said(r, "row")

(***************************************************************************)
(* C2: compare issues both stats requests before it waits, and goes past   *)
(* the join only when both have settled: while one of them is unanswered   *)
(* the handler is still at the await and has printed nothing but the       *)
(* opening line and getStats' own failure messages.                        *)
(***************************************************************************)
C2_JoinAfterBothSettled ==
  \A p \in Procs :
    LET r == proc[p]
    IN (r.cmd = "compare" /\ ConfigLoaded(r)) =>
         /\ Cardinality(RequestsOf(r)) = 2
         /\ \A q \in RequestsOf(r), a \in ResponsesOf(r) : q < a
         /\ (~Answered(r, 1) \/ ~Answered(r, 2)) =>
              /\ r.pc = "await_all"
              /\ r.status = "running"
              /\ \A k \in 1..Len(r.out) : r.out[k].t \in PreJoinTags

\* The second fetch has failed first; the first is still pending and the
\* handler waits.
C2_Witness ==
  \E p \in Procs :
    LET r == proc[p]
    IN /\ r.cmd = "compare" /\ r.pc = "await_all"
       /\ Answered(r, 2) /\ ~AnswerTo(r, 2).ok
       /\ ~Answered(r, 1)

(***************************************************************************)
(* Vocabulary for the argument of `secrets set`.                           *)
(***************************************************************************)
HasEquals(text) == \E i \in 1..Len(text) : text[i] = "="
\* The place of the first `=` of a text that has one.
FirstEquals(text) ==
  CHOOSE i \in 1..Len(text) : text[i] = "=" /\ \A k \in 1..(i - 1) : text[k] # "="
\* No `=`, nothing before the first `=`, or nothing after it.
Malformed(text) ==
  ~HasEquals(text) \/ FirstEquals(text) = 1 \/ FirstEquals(text) = Len(text)
\* The text up to its first line feed.
FirstLine(text) ==
  IF \A i \in 1..Len(text) : text[i] # "LF" THEN text
  ELSE SubSeq(text, 1, (CHOOSE i \in 1..Len(text) :
                          text[i] = "LF" /\ \A k \in 1..(i - 1) : text[k] # "LF") - 1)
\* What the local validation lets through: the first line is KEY=VALUE with
\* both parts non-empty.
PassesValidation(text) == ~Malformed(FirstLine(text))

(***************************************************************************)
(* C3: the key and the value that `secrets set` posts are the argument     *)
(* split at its first `=`: the key holds no `=`, and key, "=", value put   *)
(* together give the argument text back.                                   *)
(***************************************************************************)
C3_SplitAtFirstEquals ==
  \A p \in Procs :
    LET r == proc[p]
    IN r.cmd = "secrets_set" =>
         \A k \in RequestsOf(r) :
           /\ ~HasEquals(r.log[k].body.key)
           /\ r.log[k].body.key \o <<"=">> \o r.log[k].body.value = r.argv[1]

\* C3 for the arguments that hold no line feed: there the posted key and
\* value are the split of the argument at its first `=`.
C3_SplitAtFirstEqualsOfOneLine ==
  \A p \in Procs :
    LET r == proc[p]
    IN (r.cmd = "secrets_set" /\ FirstLine(r.argv[1]) = r.argv[1]) =>
         \A k \in RequestsOf(r) :
           /\ ~HasEquals(r.log[k].body.key)
           /\ r.log[k].body.key \o <<"=">> \o r.log[k].body.value = r.argv[1]

(***************************************************************************)
(* C4: `secrets set` with an argument that has no `=`, an empty key or an  *)
(* empty value prints the invalid-format message, returns, and issues no   *)
(* request.                                                                *)
(***************************************************************************)
C4_MalformedRejectedLocally ==
  \A p \in Procs :
    LET r == proc[p]
    IN (r.cmd = "secrets_set" /\ r.pc # "start" /\ Malformed(r.argv[1])) =>
         /\ r.pc = "exited"
         /\ r.out = << InvalidFormat >>
         /\ RequestsOf(r) = {}

\* `secrets set a=` has been rejected.
C4_Witness ==
  \E p \in Procs :
    LET r == proc[p]
    IN /\ r.cmd = "secrets_set" /\ r.pc = "exited"
       /\ r.argv[1] = <<"a", "=">>
       /\ r.out = << InvalidFormat >>
       /\ r.log = <<>>

(***************************************************************************)
(* C5, as claimed: every command but init, whatever its argument, ends     *)
(* with exit code 1 and the guidance to run init when the config file is   *)
(* absent, and makes no remote call.                                       *)
(***************************************************************************)
C5_AbsentConfigIsFatalForEveryArgument ==
  \A p \in Procs :
    LET r == proc[p]
    IN (r.cmd \in Commands \ {"init"} /\ r.pc = "exited" /\ ~file.exists) =>
         /\ r.status = "exit1"
         /\ Said(r, "run_init")
         /\ RequestsOf(r) = {}

(***************************************************************************)
(* C5, amended: with the config file absent no command makes a remote      *)
(* call; every command but init ends with exit code 1 and the guidance to  *)
(* run init, except `secrets set` with an argument its local validation    *)
(* rejects, which prints the invalid-format message and returns with exit  *)
(* code 0 without looking for the file.                                    *)
(***************************************************************************)
C5_AbsentConfigIsFatal ==
  \A p \in Procs :
    LET r == proc[p]
    IN (r.cmd \in Commands \ {"init"} /\ r.pc = "exited" /\ ~file.exists) =>
         /\ RequestsOf(r) = {}
         /\ IF r.cmd = "secrets_set" /\ ~PassesValidation(r.argv[1])
            THEN r.status = "exit0" /\ r.out = << InvalidFormat >> /\ r.log = <<>>
            ELSE /\ r.status = "exit1"
                 /\ r.out = << Msg("not_configured"), Msg("run_init") >>

\* `secrets set a=a` in a repository without config file has ended with
\* exit code 1.
C5_Witness ==
  \E p \in Procs :
    LET r == proc[p]
    IN /\ r.cmd = "secrets_set" /\ r.pc = "exited" /\ ~file.exists
       /\ r.argv[1] = <<"a", "=", "a">>
       /\ r.status = "exit1"
       /\ Said(r, "run_init")

(***************************************************************************)
(* C6: when the VCS query returns an empty branch name the process ends    *)
(* with exit code 1; no identity has been computed and no request sent.    *)
(***************************************************************************)
C6_EmptyBranchIsFatal ==
  \A p \in Procs :
    LET r == proc[p]
    IN (\E k \in 1..Len(r.log) : r.log[k].e = "git_rev_parse" /\ r.log[k].stdout = "") =>
         /\ r.cmd \in {"secrets_set", "secrets_check", "stats", "logs", "restart"}
         /\ r.pc = "exited"
         /\ r.status = "exit1"
         /\ Said(r, "could_not_determine_branch")
         /\ \A k \in 1..Len(r.log) : r.log[k].e \notin {"calculateBranchHash", "request"}

\* `restart` with the config present and no branch to be had.
C6_Witness ==
  \E p \in Procs :
    LET r == proc[p]
    IN /\ r.cmd = "restart" /\ r.pc = "exited" /\ r.status = "exit1"
       /\ ConfigLoaded(r)
       /\ \E k \in 1..Len(r.log) : r.log[k].e = "git_rev_parse" /\ r.log[k].stdout = ""

(***************************************************************************)
(* C7: once a command has sent a request, it ends by returning (exit code  *)
(* 0, no uncaught exception) whatever the answers were, and every failed   *)
(* answer (a rejection, or a body whose shape makes the handler's reads    *)
(* throw) is reported by the message of the command; for a 404 that is     *)
(* the not-found message wherever the command has one.                     *)
(***************************************************************************)
\* The bodies that make the handler throw while it reads them.
UnexpectedShape(cmd, data) ==
  CASE cmd = "secrets_check" ->
         data.isNull \/ ~data.has_secrets
           \/ (~data.all_required_set /\ ~data.has_missing)
    [] cmd = "logs" ->
         data.isNull \/ (data.has_logs /\ ~data.is_array /\ Len(data.logs) > 0)
    [] cmd = "restart" -> data.isNull
    [] OTHER -> FALSE
FailedAnswer(cmd, resp) ==
  IF resp.ok THEN UnexpectedShape(cmd, resp.data) ELSE TRUE
Is404(resp) == ~resp.ok /\ resp.response /\ resp.status = 404
\* The message with which cmd reports the failed answer resp.
FailureReported(r, resp) ==
  CASE r.cmd = "secrets_set" -> Said(r, "error_setting_secret")
    [] r.cmd = "secrets_check" ->
         IF Is404(resp) THEN Said(r, "agent_not_found")
         ELSE Said(r, "error_checking_secrets")
    [] r.cmd = "stats" ->
         /\ IF Is404(resp) THEN Said(r, "agent_not_found")
            ELSE Said(r, "error_fetching_stats")
         /\ Said(r, "could_not_fetch_stats")
    [] r.cmd = "logs" -> Said(r, "error_fetching_logs")
    [] r.cmd = "restart" ->
         IF Is404(resp) THEN Said(r, "agent_not_found")
         ELSE Said(r, "error_restarting")
    [] r.cmd = "compare" ->
         /\ IF Is404(resp) THEN Said(r, "agent_not_found")
            ELSE Said(r, "error_fetching_stats")
         /\ Said(r, "could_not_fetch_for_comparison")
    [] OTHER -> FALSE

C7_RemoteFailureIsReported ==
  \A p \in Procs :
    LET r == proc[p]
    IN (r.pc = "exited" /\ RequestsOf(r) # {}) =>
         /\ r.status = "exit0"
         /\ \A k \in ResponsesOf(r) :
              FailedAnswer(r.cmd, r.log[k].resp) => FailureReported(r, r.log[k].resp)

\* `stats` was answered 404: not-found is reported and the command returned.
C7_Witness ==
  \E p \in Procs :
    LET r == proc[p]
    IN /\ r.cmd = "stats" /\ r.pc = "exited" /\ r.status = "exit0"
       /\ Answered(r, 1) /\ Is404(AnswerTo(r, 1))
       /\ Said(r, "agent_not_found")

(***************************************************************************)
(* C8, as claimed: before the first request of any command the config has  *)
(* been loaded and, after that, the current branch has been read and found *)
(* non-empty.                                                              *)
(***************************************************************************)
ConfigThenBranchBefore(r, q) ==
  \E i \in 1..Len(r.log), j \in 1..Len(r.log) :
    /\ i < j /\ j < q
    /\ r.log[i].e = "readFile"
    /\ r.log[j].e = "git_rev_parse" /\ r.log[j].stdout # ""

C8_ContextBeforeRemoteInEveryCommand ==
  \A p \in Procs :
    \A q \in RequestsOf(proc[p]) : ConfigThenBranchBefore(proc[p], q)

(***************************************************************************)
(* C8, amended: in every command but compare, before the first request the *)
(* config has been loaded and, after that, the current branch has been     *)
(* read and found non-empty; compare loads the config before its first     *)
(* request and never reads the current branch (its branch names are its    *)
(* arguments).                                                             *)
(***************************************************************************)
C8_ContextBeforeRemote ==
  \A p \in Procs :
    LET r == proc[p]
    IN \A q \in RequestsOf(r) :
         IF r.cmd = "compare"
         THEN /\ \E i \in 1..(q - 1) : r.log[i].e = "readFile"
              /\ \A j \in 1..Len(r.log) : r.log[j].e # "git_rev_parse"
         ELSE ConfigThenBranchBefore(r, q)

\* `logs` has sent its request.
C8_Witness ==
  \E p \in Procs :
    LET r == proc[p]
    IN /\ r.cmd = "logs" /\ r.pc = "await_logs"
       /\ RequestsOf(r) # {}
       /\ r.branch_name # ""

(***************************************************************************)
(* C9: when inits run one after another, an init that finds the config     *)
(* file does not prompt, reports the stored repo_url and writes nothing;   *)
(* the file is written at most once, and what it holds is what the first   *)
(* write put there.                                                        *)
(***************************************************************************)
C9_InitKeepsExistingConfig ==
  /\ \A p \in Procs :
       LET r == proc[p]
       IN (r.cmd = "init" /\ r.pc = "exited" /\ r.log[1].found) =>
            /\ file.exists
            /\ r.out = << Msg("already_initialized"),
                          [t |-> "current_repository", repo_url |-> file.repo_url],
                          Msg("delete_to_reinitialize") >>
            /\ \A k \in 1..Len(r.log) : r.log[k].e \notin {"prompt", "writeFile"}
  /\ IF file.exists
     THEN Len(writes) = 1 /\ file.repo_url = writes[1]
     ELSE writes = <<>>

\* An init has run on a repository that an earlier init had configured.
C9_Witness ==
  \E p \in Procs :
    LET r == proc[p]
    IN /\ r.cmd = "init" /\ r.pc = "exited" /\ r.log[1].found
       /\ writes = << "r/x" >>
       /\ Said(r, "current_repository")

(***************************************************************************)
(* C10: the line that follows the table names branch1 when its             *)
(* trades_executed is strictly greater than branch2's, branch2 when        *)
(* branch2's is strictly greater, and no branch when the counts are equal; *)
(* a counter the response leaves out counts as 0.                          *)
(***************************************************************************)
CountOf(v) == IF v = Missing THEN 0 ELSE v
TradesOf(r, i) == CountOf(AnswerTo(r, i).data.stats.trades_executed)

C10_TradeLeader ==
  \A p \in Procs :
    LET r == proc[p]
    IN (r.cmd = "compare" /\ r.pc = "exited" /\ Said(r, "row")) =>
         /\ CountSaid(r, "performance_analysis") = 1
         /\ CountSaid(r, "more_trades") + CountSaid(r, "similar_trades") = 1
         /\ LET a == CHOOSE k \in 1..Len(r.out) : r.out[k].t = "performance_analysis"
                line == r.out[a + 1]
            IN /\ \A k \in 1..Len(r.out) : r.out[k].t = "row" => k < a
               /\ TradesOf(r, 1) > TradesOf(r, 2) =>
                    line = [t |-> "more_trades", branch |-> r.argv[1]]
               /\ TradesOf(r, 2) > TradesOf(r, 1) =>
                    line = [t |-> "more_trades", branch |-> r.argv[2]]
               /\ TradesOf(r, 1) = TradesOf(r, 2) => line = Msg("similar_trades")

\* branch1's snapshot has no trades_executed, branch2's has 0: no leader.
C10_Witness ==
  \E p \in Procs :
    LET r == proc[p]
    IN /\ r.cmd = "compare" /\ r.pc = "exited" /\ Said(r, "row")
       /\ r.argv[1] # r.argv[2]
       /\ AnswerTo(r, 1).data.stats.trades_executed = Missing
       /\ AnswerTo(r, 2).data.stats.trades_executed = 0
       /\ Said(r, "similar_trades")

(***************************************************************************)
(* C11: when both snapshots have a non-zero total_decisions, the line      *)
(* after the trade leader names the branch whose trades_executed /         *)
(* total_decisions is strictly greater, and there is no such line when the *)
(* rates are equal; when either total_decisions is zero or missing there   *)
(* is no success-rate line.  With 3 of 10 for branch1 and 9 of 20 for      *)
(* branch2, branch2 is named.  (A snapshot without trades_executed has no  *)
(* rate: its quotient is NaN, which is neither greater nor smaller.)       *)
(***************************************************************************)
StatsOf(r, i) == AnswerTo(r, i).data.stats
\* a's rate is strictly greater than b's, on the rationals.
RateGreater(a, b) ==
  /\ a.trades_executed # Missing /\ b.trades_executed # Missing
  /\ a.trades_executed * b.total_decisions > b.trades_executed * a.total_decisions
\* The events of a sequence that carry the tag, in order.
RECURSIVE Only(_, _)
Only(evs, tag) ==
  IF evs = <<>> THEN <<>>
  ELSE IF Head(evs).t = tag THEN << Head(evs) >> \o Only(Tail(evs), tag)
       ELSE Only(Tail(evs), tag)
RateLines(r) == Only(r.out, "better_rate")

C11_RateLeader ==
  \A p \in Procs :
    LET r == proc[p]
    IN (r.cmd = "compare" /\ r.pc = "exited" /\ Said(r, "row")) =>
         LET a == StatsOf(r, 1)
             b == StatsOf(r, 2)
             both == /\ a.total_decisions \notin {0, Missing}
                     /\ b.total_decisions \notin {0, Missing}
         IN /\ (both /\ RateGreater(a, b)) =>
                 RateLines(r) = << [t |-> "better_rate", branch |-> r.argv[1]] >>
            /\ (both /\ RateGreater(b, a)) =>
                 RateLines(r) = << [t |-> "better_rate", branch |-> r.argv[2]] >>
            /\ (both /\ ~RateGreater(a, b) /\ ~RateGreater(b, a)) => RateLines(r) = <<>>
            /\ ~both => RateLines(r) = <<>>
            /\ RateLines(r) # <<>> => r.out[Len(r.out)].t = "better_rate"

\* 3 of 10 against 9 of 20: branch2 leads.
C11_Witness ==
  \E p \in Procs :
    LET r == proc[p]
    IN /\ r.cmd = "compare" /\ r.pc = "exited" /\ Said(r, "row")
       /\ r.argv = << "main", "x/main" >>
       /\ StatsOf(r, 1) = Snapshot(10, 4, 6, 3, Missing)
       /\ StatsOf(r, 2) = Snapshot(20, 8, 12, 9, Missing)
       /\ RateLines(r) = << [t |-> "better_rate", branch |-> "x/main"] >>

(***************************************************************************)
(* C13: padWithAnsi(str, width), for a text with styling sequences and a   *)
(* width that is at least the visible length of the text (its length with  *)
(* the styling sequences stripped): the visible length of the result is    *)
(* exactly width, and the result is str followed by spaces only.           *)
(***************************************************************************)
VisibleLength(text) == Len(stripAnsi(text))
\* text is head followed by spaces only.
FollowedBySpaces(text, head) ==
  /\ Len(text) >= Len(head)
  /\ SubSeq(text, 1, Len(head)) = head
  /\ \A k \in (Len(head) + 1)..Len(text) : text[k] = " "

C13_PaddedToWidth ==
  \A p \in Procs :
    LET r == proc[p]
    IN (r.cmd = "padWithAnsi" /\ r.pc = "exited"
        /\ r.argv[2] >= VisibleLength(r.argv[1])) =>
         /\ VisibleLength(r.out[1].text) = r.argv[2]
         /\ FollowedBySpaces(r.out[1].text, r.argv[1])

\* A styled text of visible length 1 is padded to width 3.
C13_Witness ==
  \E p \in Procs :
    LET r == proc[p]
    IN /\ r.cmd = "padWithAnsi" /\ r.pc = "exited"
       /\ r.argv = << << "ESC", "[", "m", "a" >>, 3 >>
       /\ r.out[1].text = << "ESC", "[", "m", "a", " ", " " >>

(***************************************************************************)
(* C14: for all branch names and counters, every row that compare renders  *)
(* (the header row and the four metric rows) has a label cell of visible   *)
(* width exactly 19 and two value cells of visible width exactly 27.       *)
(***************************************************************************)
RowsOf(r) == { k \in 1..Len(r.out) : r.out[k].t \in {"header", "row"} }
CellWidths(ev) ==
  << VisibleLength(ev.cells[1]), VisibleLength(ev.cells[2]),
     VisibleLength(ev.cells[3]) >>

C14_FixedColumnWidths ==
  \A p \in Procs :
    LET r == proc[p]
    IN r.cmd = "compare" =>
         \A k \in RowsOf(r) :
           CellWidths(r.out[k]) = << LabelWidth, ValueWidth, ValueWidth >>

\* What the code does keep: the widths are 19, 27 and 27 in every row when
\* neither branch name is longer than the value column; a longer name is
\* printed whole and its cell is as wide as the name.
C14_FixedWidthsOfShortNames ==
  \A p \in Procs :
    LET r == proc[p]
    IN r.cmd = "compare" =>
         \A k \in RowsOf(r) :
           LET w == CellWidths(r.out[k])
               Wide(b) == IF r.out[k].t = "header" /\ Len(characters(b)) > ValueWidth
                          THEN Len(characters(b)) ELSE ValueWidth
           IN w = << LabelWidth, Wide(r.argv[1]), Wide(r.argv[2]) >>

(***************************************************************************)
(* C12: `compare A B` and `compare B A`, given the same snapshot for each  *)
(* branch, show the same four counters for each branch with the two value  *)
(* columns exchanged, and print the same leader lines: the same branch, or *)
(* none, for trade volume and for success rate.                            *)
(***************************************************************************)
\* What the run printed from the title of the table on.
TableOf(r) ==
  LET a == CHOOSE k \in 1..Len(r.out) : r.out[k].t = "table_title"
  IN SubSeq(r.out, a, Len(r.out))
\* What `compare` with the two arguments exchanged prints when each branch
\* is answered with the snapshot it was answered with in run r.
ExchangedRun(r) ==
  compareReport([r EXCEPT !.argv = << r.argv[2], r.argv[1] >>, !.out = << >>],
                [isNull |-> FALSE, has_stats |-> TRUE, stats |-> StatsOf(r, 2)],
                [isNull |-> FALSE, has_stats |-> TRUE, stats |-> StatsOf(r, 1)]).out
\* Row y is row x with the value columns exchanged.
Exchanged(x, y) ==
  /\ x.t = y.t
  /\ x.cells[1] = y.cells[1] /\ x.cells[2] = y.cells[3] /\ x.cells[3] = y.cells[2]
  /\ IF x.t = "header" THEN x.c1 = y.c2 /\ x.c2 = y.c1
     ELSE x.label = y.label /\ x.v1 = y.v2 /\ x.v2 = y.v1

C12_ComparisonSymmetry ==
  \A p \in Procs :
    LET r == proc[p]
    IN (r.cmd = "compare" /\ r.pc = "exited" /\ Said(r, "row")) =>
         LET mine == TableOf(r)
             other == ExchangedRun(r)
         IN /\ Len(mine) = Len(other)
            /\ \A k \in 1..Len(mine) :
                 IF mine[k].t \in {"header", "row"}
                 THEN Exchanged(mine[k], other[k])
                 ELSE mine[k] = other[k]
            \* each column shows the counters of the branch that heads it
            /\ \A k \in 1..Len(mine) :
                 mine[k].t = "row" =>
                   /\ mine[k].v1 \in { CountOf(StatsOf(r, 1)[f]) : f \in DOMAIN StatsOf(r, 1) }
                   /\ mine[k].v2 \in { CountOf(StatsOf(r, 2)[f]) : f \in DOMAIN StatsOf(r, 2) }

\* Two branches with different counters and a leader on both counts.
C12_Witness ==
  \E p \in Procs :
    LET r == proc[p]
    IN /\ r.cmd = "compare" /\ r.pc = "exited" /\ Said(r, "row")
       /\ r.argv = << "x/main", "main" >>
       /\ StatsOf(r, 1) = Snapshot(20, 8, 12, 9, Missing)
       /\ StatsOf(r, 2) = Snapshot(1, MaxCount, MaxCount, 1, MaxCount)
       /\ Said(r, "more_trades") /\ Said(r, "better_rate")

(***************************************************************************)
(* C15: whenever a request keyed by the identity (of stats, secrets check, *)
(* restart or compare) is answered 404, the command prints the not-found   *)
(* message for the branch, not the generic error message, and prints the   *)
(* guidance to push this branch first.                                     *)
(***************************************************************************)
KeyedByIdentity == {"stats", "secrets_check", "restart", "compare"}
GenericErrors == {"error_fetching_stats", "error_checking_secrets",
                  "error_restarting"}
\* Every answer the invocation got is a 404.
OnlyNotFound(r) ==
  /\ ResponsesOf(r) # {}
  /\ \A k \in ResponsesOf(r) : Is404(r.log[k].resp)

C15_NotFoundGetsGuidance ==
  \A p \in Procs :
    LET r == proc[p]
    IN (r.cmd \in KeyedByIdentity /\ r.pc = "exited" /\ OnlyNotFound(r)) =>
         /\ Said(r, "agent_not_found")
         /\ \A tag \in GenericErrors : ~Said(r, tag)
         /\ Said(r, "push_this_branch")

\* What the code does keep: the not-found message, set apart from the
\* generic one, in all four commands; the guidance in `secrets check` only.
C15_NotFoundIsDistinguished ==
  \A p \in Procs :
    LET r == proc[p]
    IN (r.cmd \in KeyedByIdentity /\ r.pc = "exited" /\ OnlyNotFound(r)) =>
         /\ Said(r, "agent_not_found")
         /\ \A tag \in GenericErrors : ~Said(r, tag)
         /\ Said(r, "push_this_branch") <=> r.cmd = "secrets_check"

(***************************************************************************)
(* C16: logs prints the lines in the order of the response, and at most    *)
(* 50 of them (the last 50), however many entries the response holds.      *)
(***************************************************************************)
\* The lines printed by the invocation, in order.
RECURSIVE LinesOf(_)
LinesOf(evs) ==
  IF evs = <<>> THEN <<>>
  ELSE IF Head(evs).t = "log_line" THEN << Head(evs).line >> \o LinesOf(Tail(evs))
       ELSE LinesOf(Tail(evs))
\* The last n entries of a sequence (all of them when it is shorter).
LastEntries(seq, n) ==
  IF Len(seq) <= n THEN seq ELSE SubSeq(seq, Len(seq) - n + 1, Len(seq))
\* logs was answered with a body whose `logs` is an array.
GotLogs(r) ==
  /\ r.cmd = "logs" /\ r.pc = "exited" /\ Answered(r, 1)
  /\ AnswerTo(r, 1).ok
  /\ ~AnswerTo(r, 1).data.isNull
  /\ AnswerTo(r, 1).data.has_logs /\ AnswerTo(r, 1).data.is_array

C16_AtMostLastFifty ==
  \A p \in Procs :
    LET r == proc[p]
    IN GotLogs(r) =>
         /\ Len(LinesOf(r.out)) <= LogLimit
         /\ LinesOf(r.out) = LastEntries(AnswerTo(r, 1).data.logs, LogLimit)

\* What the code does keep: every entry of the response is printed, in the
\* order of the response.
C16_AllInResponseOrder ==
  \A p \in Procs :
    LET r == proc[p]
    IN GotLogs(r) => LinesOf(r.out) = AnswerTo(r, 1).data.logs

(***************************************************************************)
(* C17: no identity is computed and no request is sent with an empty       *)
(* repo_url or an empty branch name: every command, `compare` with its two *)
(* branch arguments included, refuses an empty value before any request.   *)
(***************************************************************************)
\* The invocation has computed an identity or sent a request.
WentRemote(r) ==
  \E k \in 1..Len(r.log) : r.log[k].e \in {"calculateBranchHash", "request"}
\* The branch names the invocation works on.
BranchesOf(r) ==
  IF r.cmd = "compare" THEN { r.argv[1], r.argv[2] } ELSE { r.branch_name }

C17_NoEmptyRepoOrBranch ==
  \A p \in Procs :
    LET r == proc[p]
    IN WentRemote(r) =>
         /\ r.config.exists /\ r.config.repo_url # ""
         /\ "" \notin BranchesOf(r)

\* What the code does keep: the commands that work on the current branch
\* never go remote with an empty branch name, and a file written by init
\* never holds an empty repo_url.
C17_NoEmptyCurrentBranch ==
  \A p \in Procs :
    LET r == proc[p]
    IN (WentRemote(r) /\ r.cmd # "compare") =>
         /\ r.config.exists /\ r.config.repo_url # ""
         /\ r.branch_name # ""

(***************************************************************************)
(* C18: the identity function is injective on its input pairs (the hash    *)
(* taken as collision-free): two distinct pairs (repo_url, branch_name),   *)
(* where either text may hold a `/`, resolve to distinct identities.       *)
(***************************************************************************)
Resolves(r) == r.cmd = "calculateBranchHash" /\ r.pc = "exited"

C18_IdentityInjective ==
  \A p, q \in Procs :
    (Resolves(proc[p]) /\ Resolves(proc[q]) /\ proc[p].argv # proc[q].argv) =>
      proc[p].out[1].hash # proc[q].out[1].hash

(***************************************************************************)
(* C18, amended: the identity function is injective in each argument: for  *)
(* a fixed repo_url distinct branch names resolve to distinct identities,  *)
(* and for a fixed branch name distinct repo_urls do.                      *)
(***************************************************************************)
C18_InjectiveInEachArgument ==
  \A p, q \in Procs :
    LET a == proc[p].argv
        b == proc[q].argv
    IN (Resolves(proc[p]) /\ Resolves(proc[q]) /\ a # b
        /\ (a[1] = b[1] \/ a[2] = b[2])) =>
         proc[p].out[1].hash # proc[q].out[1].hash

\* Two branches of one repository have been resolved, one of them with a
\* `/` in its name.
C18_Witness ==
  /\ Resolves(proc[1]) /\ Resolves(proc[2])
  /\ proc[1].argv = << "r/x", "main" >>
  /\ proc[2].argv = << "r/x", "x/main" >>
  /\ proc[1].out[1].hash # proc[2].out[1].hash

(***************************************************************************)
(* C19: in whichever order the two fetches of compare complete, the column *)
(* headed by branch1 shows the counters answered to the request for        *)
(* branch1's identity and the column headed by branch2 those answered to   *)
(* the request for branch2's identity, and the leader lines name the       *)
(* branch whose own counters are greater.                                  *)
(***************************************************************************)
\* The place in the log of the i-th request.
RequestAt(r, i) ==
  CHOOSE k \in RequestsOf(r) : Cardinality({ j \in RequestsOf(r) : j <= k }) = i
\* The counter a row shows.
FieldOf(label) ==
  CASE label = "Total Decisions" -> "total_decisions"
    [] label = "BUY Signals" -> "buy_count"
    [] label = "HOLD Signals" -> "hold_count"
    [] label = "Trades Executed" -> "trades_executed"
\* The second fetch completed before the first.
SecondFirst(r) == ResponseAt(r, 2) < ResponseAt(r, 1)

C19_ColumnsFollowBranches ==
  \A p \in Procs :
    LET r == proc[p]
    IN (r.cmd = "compare" /\ r.pc = "exited" /\ Said(r, "row")) =>
         /\ \A i \in {1, 2} :
              r.log[RequestAt(r, i)].path =
                << "/api/stats", calculateBranchHash(r.config.repo_url, r.argv[i]) >>
         /\ \A k \in 1..Len(r.out) :
              /\ r.out[k].t = "header" =>
                   r.out[k].c1 = r.argv[1] /\ r.out[k].c2 = r.argv[2]
              /\ r.out[k].t = "row" =>
                   /\ r.out[k].v1 = CountOf(StatsOf(r, 1)[FieldOf(r.out[k].label)])
                   /\ r.out[k].v2 = CountOf(StatsOf(r, 2)[FieldOf(r.out[k].label)])
                   /\ r.out[k].cells[2] = padWithAnsi(toString(r.out[k].v1), ValueWidth)
                   /\ r.out[k].cells[3] = padWithAnsi(toString(r.out[k].v2), ValueWidth)
         /\ { r.out[k].label : k \in { j \in 1..Len(r.out) : r.out[j].t = "row" } }
              = {"Total Decisions", "BUY Signals", "HOLD Signals", "Trades Executed"}
         /\ \A i \in {1, 2} :
              /\ TradesOf(r, i) > TradesOf(r, 3 - i) =>
                   Only(r.out, "more_trades")
                     = << [t |-> "more_trades", branch |-> r.argv[i]] >>
              /\ RateLines(r) = << [t |-> "better_rate", branch |-> r.argv[i]] >> =>
                   \/ RateGreater(StatsOf(r, i), StatsOf(r, 3 - i))
                   \/ r.argv[1] = r.argv[2]

\* The answer for branch2 came first, and the two snapshots differ in every
\* counter.
C19_Witness ==
  \E p \in Procs :
    LET r == proc[p]
    IN /\ r.cmd = "compare" /\ r.pc = "exited" /\ Said(r, "row")
       /\ SecondFirst(r)
       /\ r.argv = << "main", "x/main" >>
       /\ StatsOf(r, 1) = Snapshot(10, 4, 6, 3, Missing)
       /\ StatsOf(r, 2) = Snapshot(20, 8, 12, 9, Missing)
       /\ Only(r.out, "more_trades") = << [t |-> "more_trades", branch |-> "x/main"] >>

(***************************************************************************)
(* C20: when two invocations of init overlap, each suspended at its prompt *)
(* between its existence check and its write, the file written by one is   *)
(* not replaced by the other: once both have finished, the stored repo_url *)
(* is the one that was written first.                                      *)
(***************************************************************************)
Finished(r) == r.pc \in {"idle", "exited"}

C20_FirstWriteStays ==
  ((\A p \in Procs : Finished(proc[p])) /\ file.exists) =>
    file.repo_url = writes[1]

====
